---- MODULE Spec2Model ----
(***************************************************************************)
(* Scan job orchestration of htb/__main__.py: background launch,          *)
(* foreground monitor (watch / interrupt / detach), jobs list, jobs kill  *)
(* and the shutdown drain of main().                                      *)
(*                                                                         *)
(* The command loop is one thread (pc); every job has one executor thread *)
(* (epc).  Tracker, Machine.scan and the executor thread live in          *)
(* htb.scanner / htb.machine, outside __main__.py; they are modelled from *)
(* the design document (sections 3, 4.2, 4.3 and 5): a job is created     *)
(* with its handoff lock held by the creator, and the executor, once      *)
(* finished, takes the lock, puts the tracker on the job's registered     *)
(* completion channel and releases the lock.  The design gives a job one  *)
(* registered channel; __main__.py stores it as tracker.events at lines   *)
(* 668 and 714 and as tracker.job_events at line 681.                     *)
(***************************************************************************)
EXTENDS Naturals, Integers, Sequences, FiniteSets, TLC

\* bound: number of jobs ever created in one run
MaxJobs == 2
\* bound: number of (service, scanner) pairs one scan request may run
MaxPairs == 2

JobIds == 1..MaxJobs

\* The scanner registry and the target (design sections 3 and 4.1): three
\* scanners in registry order, each with its recommended flag, its
\* match(target) and its match_service(service); the target has two
\* services.
AVAILABLE_SCANNERS == <<"S1", "S2", "S3">>
Recommended == {"S1", "S3"}
MatchTarget == {"S1", "S2"}
MatchService(s, svc) ==
    \/ s = "S1" /\ svc = "22/tcp"
    \/ s = "S2" /\ svc = "80/tcp"
    \/ s = "S3" /\ svc = "80/tcp"
MachineServices == <<"80/tcp", "22/tcp">>

\* an option that was not given on the command line
None == "None"
\* the values tried for --scanner, --service and --recommended
ScannerArgs == {None, "S2", "S3"}
ServiceArgs == {None, "80/tcp", "443/tcp"}
ScanArgs ==
    [recommended : BOOLEAN, scanner : ScannerArgs, service : ServiceArgs]
NoArgs == [recommended |-> FALSE, scanner |-> "-", service |-> "-"]

\* mutant: the service filter is ignored
SelServices_All(a) == MachineServices

\* services = [s for s in m.services if s.port == port and s.protocol ==
\* protocol], or m.services without --service
SelServices(a) ==
    IF a.service # None
    THEN SelectSeq(MachineServices, LAMBDA svc : svc = a.service)
    ELSE MachineServices

\* the first filter: by recommended and match(m), else by name, else by
\* match(m)
FirstScanners(a) ==
    IF a.recommended
    THEN SelectSeq(AVAILABLE_SCANNERS,
                   LAMBDA s : s \in Recommended /\ s \in MatchTarget)
    ELSE IF a.scanner # None
    THEN SelectSeq(AVAILABLE_SCANNERS, LAMBDA s : s = a.scanner)
    ELSE SelectSeq(AVAILABLE_SCANNERS, LAMBDA s : s \in MatchTarget)

\* any([s.match_service(svc) for svc in services])
MatchAny(s, a) ==
    \E i \in 1..Len(SelServices(a)) : MatchService(s, SelServices(a)[i])

\* mutant: the second filter keeps every scanner that matches the target and
\* a selected service, recommended or not
SelScanners_AnyMatching(a) ==
    SelectSeq(AVAILABLE_SCANNERS,
              LAMBDA s : s \in MatchTarget /\ MatchAny(s, a))

\* the second filter: scanners that match a selected service
SelScanners(a) ==
    IF a.recommended
    THEN SelectSeq(FirstScanners(a),
                   LAMBDA s : s \in Recommended /\ MatchAny(s, a))
    ELSE IF a.scanner # None
    THEN SelectSeq(FirstScanners(a),
                   LAMBDA s : s = a.scanner /\ MatchAny(s, a))
    ELSE SelectSeq(FirstScanners(a), LAMBDA s : MatchAny(s, a))

\* what _machine_scan reports when it returns before its loop
ScanReport(a) ==
    IF SelServices(a) = <<>> THEN "no matching services found"
    ELSE IF SelScanners(a) = <<>> THEN "no matching scanners found"
    ELSE "scanning"

\* every (service, scanner) in loop order: services outside, scanners inside
LoopPairs(svcs, scs) ==
    [k \in 1..(Len(svcs) * Len(scs)) |->
        [service |-> svcs[((k - 1) \div Len(scs)) + 1],
         scanner |-> scs[((k - 1) % Len(scs)) + 1]]]

\* mutant: scanners in the outer loop, services in the inner loop
ScanPairs_ScannersOuter(a) ==
    IF ScanReport(a) # "scanning" THEN <<>>
    ELSE SelectSeq(
            [k \in 1..(Len(SelServices(a)) * Len(SelScanners(a))) |->
                [service |-> SelServices(a)[((k - 1) % Len(SelServices(a))) + 1],
                 scanner |->
                    SelScanners(a)[((k - 1) \div Len(SelServices(a))) + 1]]],
            LAMBDA p : MatchService(p.scanner, p.service))

\* the pairs the loop runs a scan for: those that pass
\* "if not scanner.match_service(service): continue"
ScanPairs(a) ==
    IF ScanReport(a) # "scanning" THEN <<>>
    ELSE SelectSeq(LoopPairs(SelServices(a), SelScanners(a)),
                   LAMBDA p : MatchService(p.scanner, p.service))

VARIABLES
    jobs,        \* self.jobs: the Job Table, a sequence of job ids
    job_events,  \* self.job_events: the shared completion queue
    njobs,       \* number of trackers created so far
    stop,        \* tracker.stop
    silent,      \* tracker.silent
    status,      \* tracker.status: "running" | "completed"
    events,      \* registered completion channel: "none" | "private" | "shared"
    lock,        \* tracker.lock holder: "free" | "main" | "exec"
    thread,      \* tracker.thread: "live" | "none"
    daemon,      \* tracker.thread.daemon
    epc,         \* executor: "new" | "run" | "finished" | "locked" | "put" | "done"
    priv,        \* the local queue of monitor_scan for each watched job
    pc,          \* position of the command-loop thread
    cur,         \* the tracker the command loop is working on (0: none)
    todo,        \* (service, scanner) pairs still to launch in this scan
    args,        \* args of the scan request about to enter its loop, else NoArgs
    bg,          \* args.background of the scan in progress
    handler,     \* SIGTSTP disposition: "default" | "background_me"
    argv,        \* main() is running the command given on the command line
    sent,        \* history: channel the executor put its signal on
    recvP,       \* history: times the signal was dequeued by the monitor
    recvS,       \* history: times the signal was dequeued from job_events
    outcome,     \* history: how watch of the job ended
    early        \* history: watch returned Detached while the tool still ran

tracker == <<stop, silent, status, events, lock, thread, daemon>>
executor == <<epc, sent>>
loop == <<pc, cur, todo, args, bg, handler, argv>>
history == <<recvP, recvS, outcome, early>>
vars == <<jobs, job_events, njobs, tracker, executor, priv, loop, history>>

Created == 1..njobs
InTable(j) == \E i \in 1..Len(jobs) : jobs[i] = j
\* [j for j in cmd.jobs if j.thread is not None]
LiveInTable == {j \in Created : InTable(j) /\ thread[j] = "live"}
\* where a command returns to: the prompt of cmdloop(), or main() after
\* cmd.onecmd(...)
Prompt == IF argv THEN "main_if" ELSE "idle"
\* where the command loop goes once the current job is handed over
ReturnPc == IF todo # <<>> THEN "scan" ELSE Prompt

Init ==
    /\ jobs = <<>>
    /\ job_events = <<>>
    /\ njobs = 0
    /\ stop = [j \in JobIds |-> FALSE]
    /\ silent = [j \in JobIds |-> FALSE]
    /\ status = [j \in JobIds |-> "running"]
    /\ events = [j \in JobIds |-> "none"]
    /\ lock = [j \in JobIds |-> "free"]
    /\ thread = [j \in JobIds |-> "none"]
    /\ daemon = [j \in JobIds |-> FALSE]
    /\ epc = [j \in JobIds |-> "new"]
    /\ priv = [j \in JobIds |-> <<>>]
    /\ pc = "idle"
    /\ cur = 0
    /\ todo = <<>>
    /\ args = NoArgs
    /\ bg = FALSE
    /\ handler = "default"
    /\ argv \in BOOLEAN
    /\ sent = [j \in JobIds |-> "unsent"]
    /\ recvP = [j \in JobIds |-> 0]
    /\ recvS = [j \in JobIds |-> 0]
    /\ outcome = [j \in JobIds |-> "none"]
    /\ early = [j \in JobIds |-> FALSE]

----
\* _machine_scan with args a and args.background = b, up to its loop: the
\* services and scanners are filtered; with none left the command reports
\* and returns, nothing changed; else the loop is entered (only requests
\* whose jobs fit in the bounds are explored)
ScanStart(b, a) ==
    /\ pc = "idle"
    /\ Len(ScanPairs(a)) <= MaxPairs
    /\ njobs + Len(ScanPairs(a)) <= MaxJobs
    /\ IF ScanReport(a) # "scanning"
       THEN pc' = Prompt /\ UNCHANGED <<todo, args, bg>>
       ELSE /\ pc' = "scan"
            /\ todo' = ScanPairs(a)
            /\ args' = a
            /\ bg' = b
    /\ UNCHANGED <<jobs, job_events, njobs, tracker, executor, priv, argv, cur,
                   handler, history>>

\* tracker = m.scan(scanner, service, silent=args.background); the loop
\* reads of args only args.background
MachineScan ==
    /\ pc = "scan"
    /\ todo # <<>>
    /\ njobs < MaxJobs
    /\ LET j == njobs + 1 IN
        /\ njobs' = j
        /\ cur' = j
        /\ lock' = [lock EXCEPT ![j] = "main"]
        /\ thread' = [thread EXCEPT ![j] = "live"]
        /\ silent' = [silent EXCEPT ![j] = bg]
        /\ epc' = [epc EXCEPT ![j] = "run"]
    /\ todo' = Tail(todo)
    /\ pc' = IF bg THEN "bg_reg" ELSE "mon_reg"
    /\ args' = NoArgs
    /\ UNCHANGED <<jobs, job_events, stop, status, events, daemon,
                   sent, priv, argv, bg, handler, history>>

\* tracker.events = self.job_events
BgRegister ==
    /\ pc = "bg_reg"
    /\ events' = [events EXCEPT ![cur] = "shared"]
    /\ pc' = "bg_rel"
    /\ UNCHANGED <<jobs, job_events, njobs, stop, silent, status, lock,
                   thread, daemon, executor, priv, argv, cur, todo, args, bg, handler,
                   history>>

\* tracker.lock.release()
BgRelease ==
    /\ pc = "bg_rel"
    /\ lock' = [lock EXCEPT ![cur] = "free"]
    /\ pc' = "bg_app"
    /\ UNCHANGED <<jobs, job_events, njobs, stop, silent, status, events,
                   thread, daemon, executor, priv, argv, cur, todo, args, bg, handler,
                   history>>

\* mutant: the background branch falls through into monitor_scan
BgAppend_ThenMonitor ==
    /\ pc = "bg_app"
    /\ jobs' = Append(jobs, cur)
    /\ pc' = "mon_sig"
    /\ UNCHANGED <<job_events, njobs, tracker, executor, priv, argv, cur, todo, args, bg,
                   handler, history>>

\* mutant: the background job is released and never put in the table
BgAppend_Skip ==
    /\ pc = "bg_app"
    /\ pc' = ReturnPc
    /\ cur' = 0
    /\ UNCHANGED <<jobs, job_events, njobs, tracker, executor, priv, argv, todo,
                   args, bg, handler, history>>

\* self.jobs.append(tracker)
BgAppend ==
    /\ pc = "bg_app"
    /\ jobs' = Append(jobs, cur)
    /\ pc' = ReturnPc
    /\ cur' = 0
    /\ UNCHANGED <<job_events, njobs, tracker, executor, priv, argv, todo, args, bg,
                   handler, history>>

----
\* mutant: the private queue is created and never registered on the tracker
MonRegister_Unregistered ==
    /\ pc = "mon_reg"
    /\ priv' = [priv EXCEPT ![cur] = <<>>]
    /\ pc' = "mon_rel"
    /\ UNCHANGED <<jobs, job_events, njobs, tracker, executor, cur, todo, args, bg,
                   handler, history, argv>>

\* mutant: the monitor registers the shared queue and waits on its own
MonRegister_Shared ==
    /\ pc = "mon_reg"
    /\ events' = [events EXCEPT ![cur] = "shared"]
    /\ priv' = [priv EXCEPT ![cur] = <<>>]
    /\ pc' = "mon_rel"
    /\ UNCHANGED <<jobs, job_events, njobs, stop, silent, status, lock,
                   thread, daemon, executor, cur, todo, args, bg, handler, history, argv>>

\* monitor_scan: events = queue.Queue(); tracker.job_events = events
MonRegister ==
    /\ pc = "mon_reg"
    /\ events' = [events EXCEPT ![cur] = "private"]
    /\ priv' = [priv EXCEPT ![cur] = <<>>]
    /\ pc' = "mon_rel"
    /\ UNCHANGED <<jobs, job_events, njobs, stop, silent, status, lock,
                   thread, daemon, executor, cur, todo, args, bg, handler, history, argv>>

\* mutant: monitor_scan releases the lock and returns without waiting
MonRelease_Return ==
    /\ pc = "mon_rel"
    /\ lock' = [lock EXCEPT ![cur] = "free"]
    /\ pc' = ReturnPc
    /\ cur' = 0
    /\ UNCHANGED <<jobs, job_events, njobs, stop, silent, status, events,
                   thread, daemon, executor, priv, argv, todo, args, bg, handler,
                   history>>

\* tracker.lock.release()
MonRelease ==
    /\ pc = "mon_rel"
    /\ lock' = [lock EXCEPT ![cur] = "free"]
    /\ pc' = "mon_sig"
    /\ UNCHANGED <<jobs, job_events, njobs, stop, silent, status, events,
                   thread, daemon, executor, priv, argv, cur, todo, args, bg, handler,
                   history>>

\* signal.signal(signal.SIGTSTP, background_me)
MonInstall ==
    /\ pc = "mon_sig"
    /\ handler' = "background_me"
    /\ pc' = "mon_get"
    /\ UNCHANGED <<jobs, job_events, njobs, tracker, executor, priv, argv, cur,
                   todo, args, bg, history>>

\* tracker = tracker.job_events.get(): blocks until the local queue has an item
MonGet ==
    /\ pc = "mon_get"
    /\ priv[cur] # <<>>
    /\ cur' = Head(priv[cur])
    /\ priv' = [priv EXCEPT ![cur] = Tail(@)]
    /\ recvP' = [recvP EXCEPT ![Head(priv[cur])] = @ + 1]
    /\ pc' = "mon_restore"
    /\ UNCHANGED <<jobs, job_events, njobs, tracker, executor, todo, args, bg,
                   handler, recvS, outcome, early, argv>>

\* KeyboardInterrupt raised inside the blocking get()
MonInterrupt ==
    /\ pc = "mon_get"
    /\ pc' = "mon_stop"
    /\ UNCHANGED <<jobs, job_events, njobs, tracker, executor, priv, argv, cur,
                   todo, args, bg, handler, history>>

\* a second KeyboardInterrupt, raised while the except block of the first
\* runs (lines 700-703, before tracker.stop = True): it is caught by
\* neither handler of monitor_scan and leaves it, past the restore of line
\* 707, and _machine_scan with the pairs still to launch.  Under cmdloop()
\* the library reports it and prompts again; the command of the command
\* line (where it would leave main()) is not explored.
MonInterruptAgain ==
    /\ pc = "mon_stop"
    /\ ~argv
    /\ outcome' = [outcome EXCEPT ![cur] = "Interrupted"]
    /\ todo' = <<>>
    /\ cur' = 0
    /\ pc' = "idle"
    /\ UNCHANGED <<jobs, job_events, njobs, tracker, executor, priv, argv,
                   args, bg, handler, recvP, recvS, early>>

\* except KeyboardInterrupt: tracker.stop = True
MonStop ==
    /\ pc = "mon_stop"
    /\ stop' = [stop EXCEPT ![cur] = TRUE]
    /\ pc' = "mon_restore"
    /\ UNCHANGED <<jobs, job_events, njobs, silent, status, events, lock,
                   thread, daemon, executor, priv, argv, cur, todo, args, bg, handler,
                   history>>

\* signal.signal(signal.SIGTSTP, signal.SIG_DFL), then monitor_scan returns
MonRestore ==
    /\ pc = "mon_restore"
    /\ handler' = "default"
    /\ outcome' = [outcome EXCEPT ![cur] =
                      IF recvP[cur] > 0 THEN "Completed" ELSE "Interrupted"]
    /\ pc' = ReturnPc
    /\ cur' = 0
    /\ UNCHANGED <<jobs, job_events, njobs, tracker, executor, priv, argv, todo, args,
                   bg, recvP, recvS, early>>

\* SIGTSTP while background_me is installed: the handler resets the
\* disposition and raises GoToSleep in the command-loop thread
Sigtstp ==
    /\ handler = "background_me"
    /\ pc \in {"mon_get", "mon_stop", "mon_restore"}
    /\ handler' = "default"
    /\ pc' = "det_lock"
    /\ UNCHANGED <<jobs, job_events, njobs, tracker, executor, priv, argv, cur,
                   todo, args, bg, history>>

\* except GoToSleep: with tracker.lock (acquire blocks while the lock is held)
DetLock ==
    /\ pc = "det_lock"
    /\ lock[cur] = "free"
    /\ lock' = [lock EXCEPT ![cur] = "main"]
    /\ pc' = "det_body"
    /\ UNCHANGED <<jobs, job_events, njobs, stop, silent, status, events,
                   thread, daemon, executor, priv, argv, cur, todo, args, bg, handler,
                   history>>

\* mutant: the detach appends the job without re-registering its channel
DetHandoff_NoRegister ==
    /\ pc = "det_body"
    /\ silent' = [silent EXCEPT ![cur] = TRUE]
    /\ jobs' = Append(jobs, cur)
    /\ lock' = [lock EXCEPT ![cur] = "free"]
    /\ outcome' = [outcome EXCEPT ![cur] = "Detached"]
    /\ early' = [early EXCEPT ![cur] = (epc[cur] = "run")]
    /\ pc' = ReturnPc
    /\ cur' = 0
    /\ UNCHANGED <<job_events, njobs, stop, status, events, thread, daemon,
                   executor, priv, argv, todo, args, bg, handler, recvP, recvS>>

\* mutant: the detach leaves the job's progress output on
DetHandoff_NotSilent ==
    /\ pc = "det_body"
    /\ events' = [events EXCEPT ![cur] = "shared"]
    /\ jobs' = Append(jobs, cur)
    /\ lock' = [lock EXCEPT ![cur] = "free"]
    /\ outcome' = [outcome EXCEPT ![cur] = "Detached"]
    /\ early' = [early EXCEPT ![cur] = (epc[cur] = "run")]
    /\ pc' = ReturnPc
    /\ cur' = 0
    /\ UNCHANGED <<job_events, njobs, stop, silent, status, thread, daemon,
                   executor, priv, argv, todo, args, bg, handler, recvP, recvS>>

\* tracker.silent = True; tracker.events = self.job_events;
\* self.jobs.append(tracker); leaving the with block releases the lock and
\* monitor_scan returns
DetHandoff ==
    /\ pc = "det_body"
    /\ silent' = [silent EXCEPT ![cur] = TRUE]
    /\ events' = [events EXCEPT ![cur] = "shared"]
    /\ jobs' = Append(jobs, cur)
    /\ lock' = [lock EXCEPT ![cur] = "free"]
    /\ outcome' = [outcome EXCEPT ![cur] = "Detached"]
    /\ early' = [early EXCEPT ![cur] = (epc[cur] = "run")]
    /\ pc' = ReturnPc
    /\ cur' = 0
    /\ UNCHANGED <<job_events, njobs, stop, status, thread, daemon, executor,
                   priv, argv, todo, args, bg, handler, recvP, recvS>>

----
\* _jobs_list: the loop around self.job_events.get_nowait()
JobsList ==
    /\ pc = "idle"
    /\ pc' = "list_get"
    /\ UNCHANGED <<jobs, job_events, njobs, tracker, executor, priv, argv, cur,
                   todo, args, bg, handler, history>>

\* mutant: the head of the queue is read and left on the queue
ListGet_Peek ==
    /\ pc = "list_get"
    /\ IF job_events = <<>>
       THEN /\ pc' = Prompt
            /\ UNCHANGED <<cur, recvS>>
       ELSE /\ cur' = Head(job_events)
            /\ recvS' = [recvS EXCEPT ![Head(job_events)] = @ + 1]
            /\ pc' = "list_join"
    /\ UNCHANGED <<jobs, job_events, njobs, tracker, executor, priv, argv, todo, args, bg,
                   handler, recvP, outcome, early>>

\* mutant: on an empty queue the pass waits until no job of the table runs
ListGet_WaitAll ==
    /\ pc = "list_get"
    /\ IF job_events = <<>>
       THEN /\ \A i \in 1..Len(jobs) : epc[jobs[i]] # "run"
            /\ pc' = Prompt
            /\ UNCHANGED <<job_events, cur, recvS>>
       ELSE /\ cur' = Head(job_events)
            /\ job_events' = Tail(job_events)
            /\ recvS' = [recvS EXCEPT ![Head(job_events)] = @ + 1]
            /\ pc' = "list_join"
    /\ UNCHANGED <<jobs, njobs, tracker, executor, priv, argv, todo, args, bg, handler,
                   recvP, outcome, early>>

\* t = self.job_events.get_nowait(); queue.Empty ends the loop and the
\* table is displayed
ListGet ==
    /\ pc = "list_get"
    /\ IF job_events = <<>>
       THEN /\ pc' = Prompt
            /\ UNCHANGED <<job_events, cur, recvS>>
       ELSE /\ cur' = Head(job_events)
            /\ job_events' = Tail(job_events)
            /\ recvS' = [recvS EXCEPT ![Head(job_events)] = @ + 1]
            /\ pc' = "list_join"
    /\ UNCHANGED <<jobs, njobs, tracker, executor, priv, argv, todo, args, bg, handler,
                   recvP, outcome, early>>

\* mutant: the joined handle is not cleared
ListJoin_KeepHandle ==
    /\ pc = "list_join"
    /\ epc[cur] = "done"
    /\ pc' = "list_get"
    /\ cur' = 0
    /\ UNCHANGED <<jobs, job_events, njobs, tracker, executor, priv, argv, todo, args,
                   bg, handler, history>>

\* mutant: the joined job is taken out of the table
ListJoin_Remove ==
    /\ pc = "list_join"
    /\ thread[cur] = "live"
    /\ epc[cur] = "done"
    /\ thread' = [thread EXCEPT ![cur] = "none"]
    /\ jobs' = SelectSeq(jobs, LAMBDA j : j # cur)
    /\ pc' = "list_get"
    /\ cur' = 0
    /\ UNCHANGED <<job_events, njobs, stop, silent, status, events,
                   lock, daemon, executor, priv, argv, todo, args, bg, handler, history>>

\* mutant: the pass displays the table after the first join
ListJoin_Once ==
    /\ pc = "list_join"
    /\ thread[cur] = "live"
    /\ epc[cur] = "done"
    /\ thread' = [thread EXCEPT ![cur] = "none"]
    /\ pc' = Prompt
    /\ cur' = 0
    /\ UNCHANGED <<jobs, job_events, njobs, stop, silent, status, events,
                   lock, daemon, executor, priv, argv, todo, args, bg, handler, history>>

\* t.thread.join(); t.thread = None.  join() returns once the executor
\* thread has ended; on a handle that is already None it raises.
ListJoin ==
    /\ pc = "list_join"
    /\ IF thread[cur] = "none"
       THEN /\ pc' = "crashed"
            /\ UNCHANGED thread
       ELSE /\ epc[cur] = "done"
            /\ thread' = [thread EXCEPT ![cur] = "none"]
            /\ pc' = "list_get"
    /\ cur' = 0
    /\ UNCHANGED <<jobs, job_events, njobs, stop, silent, status, events,
                   lock, daemon, executor, priv, argv, todo, args, bg, handler, history>>

\* mutant: already-completed is decided by the status, not by the handle
KillReport_ByStatus(i) ==
    IF i < 0 \/ i >= Len(jobs) THEN "no such job"
    ELSE IF status[jobs[i + 1]] = "completed" THEN "already completed"
    ELSE "killing job"

\* the table _jobs_list displays: index, job, dimmed when the handle is
\* cleared, and job.status
Rows ==
    [i \in 1..Len(jobs) |->
        [ident |-> i - 1, job |-> jobs[i],
         dim |-> (thread[jobs[i]] = "none"), status |-> status[jobs[i]]]]

\* what _jobs_kill reports for args.job_id = i (0-based index into self.jobs)
KillReport(i) ==
    IF i < 0 \/ i >= Len(jobs) THEN "no such job"
    ELSE IF thread[jobs[i + 1]] = "none" THEN "already completed"
    ELSE "killing job"

\* mutant: the index is taken one entry too far (wrapping at the end)
KillStop_Neighbour(i) ==
    IF KillReport(i) = "killing job"
    THEN [stop EXCEPT ![jobs[((i + 1) % Len(jobs)) + 1]] = TRUE]
    ELSE stop

\* the stop flags _jobs_kill leaves behind: only a job with a live handle is
\* told to stop
KillStop(i) ==
    IF KillReport(i) = "killing job"
    THEN [stop EXCEPT ![jobs[i + 1]] = TRUE]
    ELSE stop

\* mutant: the cleared-handle check is missing
JobsKill_NoHandleCheck(i) ==
    /\ pc = "idle"
    /\ stop' = IF i >= 0 /\ i < Len(jobs)
               THEN [stop EXCEPT ![jobs[i + 1]] = TRUE]
               ELSE stop
    /\ pc' = Prompt
    /\ UNCHANGED <<jobs, job_events, njobs, silent, status, events, lock,
                   thread, daemon, executor, priv, cur, todo, args, bg,
                   handler, argv, history>>

\* _jobs_kill with args.job_id = i
JobsKill(i) ==
    /\ pc = "idle"
    /\ stop' = KillStop(i)
    /\ pc' = Prompt
    /\ UNCHANGED <<jobs, job_events, njobs, silent, status, events, lock,
                   thread, daemon, executor, priv, cur, todo, args, bg,
                   handler, argv, history>>

----
\* main(): cmd.onecmd(...) was given a command the parser rejects
\* (Cmd2ArgparseError): sys.exit(1).  At the prompt the error is printed
\* and nothing changes.
MainArgError ==
    /\ pc = "idle"
    /\ argv
    /\ pc' = "exit1"
    /\ UNCHANGED <<jobs, job_events, njobs, tracker, executor, priv, cur,
                   todo, args, bg, handler, argv, history>>

\* mutant: after the command main() always starts the interpreter
MainIf_AlwaysLoop ==
    /\ pc = "main_if"
    /\ pc' = "main_loop"
    /\ UNCHANGED <<jobs, job_events, njobs, tracker, executor, priv, cur,
                   todo, args, bg, handler, argv, history>>

\* main(), after cmd.onecmd(...) has returned:
\* if len([j for j in cmd.jobs if j.thread is not None]): pwarning(...)
\* else: result = 0, and the drain follows
MainIf ==
    /\ pc = "main_if"
    /\ IF LiveInTable # {}
       THEN pc' = "main_loop" /\ UNCHANGED argv
       ELSE pc' = "drain1" /\ argv' = FALSE
    /\ UNCHANGED <<jobs, job_events, njobs, tracker, executor, priv, cur,
                   todo, args, bg, handler, history>>

\* result = cmd.cmdloop() after the warning: the prompt
MainCmdloop ==
    /\ pc = "main_loop"
    /\ pc' = "idle"
    /\ argv' = FALSE
    /\ UNCHANGED <<jobs, job_events, njobs, tracker, executor, priv, cur,
                   todo, args, bg, handler, history>>

\* the quit command: cmdloop() returns and the drain begins; given on the
\* command line, onecmd returns to main()
Quit ==
    /\ pc = "idle"
    /\ pc' = IF argv THEN "main_if" ELSE "drain1"
    /\ UNCHANGED <<jobs, job_events, njobs, tracker, executor, priv, argv, cur,
                   todo, args, bg, handler, history>>

\* mutant: the dequeued job is marked completed and keeps its handle
DrainGet_NoClear ==
    /\ pc \in {"drain1", "drain2"}
    /\ LiveInTable # {}
    /\ job_events # <<>>
    /\ job_events' = Tail(job_events)
    /\ status' = [status EXCEPT ![Head(job_events)] = "completed"]
    /\ recvS' = [recvS EXCEPT ![Head(job_events)] = @ + 1]
    /\ UNCHANGED <<jobs, njobs, stop, silent, events, lock, thread, daemon,
                   executor, priv, argv, pc, cur, todo, args, bg, handler, recvP,
                   outcome, early>>

\* mutant: the dequeued job is marked running again
DrainGet_Reset ==
    /\ pc \in {"drain1", "drain2"}
    /\ LiveInTable # {}
    /\ job_events # <<>>
    /\ job_events' = Tail(job_events)
    /\ status' = [status EXCEPT ![Head(job_events)] = "running"]
    /\ thread' = [thread EXCEPT ![Head(job_events)] = "none"]
    /\ recvS' = [recvS EXCEPT ![Head(job_events)] = @ + 1]
    /\ UNCHANGED <<jobs, njobs, stop, silent, events, lock, daemon,
                   executor, priv, argv, pc, cur, todo, args, bg, handler, recvP,
                   outcome, early>>

\* mutant: one signal marks every job of the table
DrainGet_MarkAll ==
    /\ pc \in {"drain1", "drain2"}
    /\ LiveInTable # {}
    /\ job_events # <<>>
    /\ job_events' = Tail(job_events)
    /\ status' = [j \in JobIds |->
                    IF InTable(j) THEN "completed" ELSE status[j]]
    /\ thread' = [j \in JobIds |-> IF InTable(j) THEN "none" ELSE thread[j]]
    /\ recvS' = [recvS EXCEPT ![Head(job_events)] = @ + 1]
    /\ UNCHANGED <<jobs, njobs, stop, silent, events, lock, daemon,
                   executor, priv, argv, pc, cur, todo, args, bg, handler, recvP,
                   outcome, early>>

\* while len([j for j in cmd.jobs if j.thread is not None]):
\*     tracker = cmd.job_events.get(); status = "completed"; thread = None
DrainGet ==
    /\ pc \in {"drain1", "drain2"}
    /\ LiveInTable # {}
    /\ job_events # <<>>
    /\ LET t == Head(job_events) IN
        /\ job_events' = Tail(job_events)
        /\ status' = [status EXCEPT ![t] = "completed"]
        /\ thread' = [thread EXCEPT ![t] = "none"]
        /\ recvS' = [recvS EXCEPT ![t] = @ + 1]
    /\ UNCHANGED <<jobs, njobs, stop, silent, events, lock, daemon,
                   executor, priv, argv, pc, cur, todo, args, bg, handler, recvP,
                   outcome, early>>

\* the while condition is false: the drain is over, and main() goes on to
\* write the session into the configuration file
DrainExit ==
    /\ pc \in {"drain1", "drain2"}
    /\ LiveInTable = {}
    /\ pc' = "exited"
    /\ UNCHANGED <<jobs, job_events, njobs, tracker, executor, priv, argv, cur,
                   todo, args, bg, handler, history>>

\* mutant: only the first job of the table is told to stop
DrainInterrupt_OnlyFirst ==
    /\ pc = "drain1"
    /\ LiveInTable # {}
    /\ stop' = [stop EXCEPT ![jobs[1]] = TRUE]
    /\ pc' = "drain2"
    /\ UNCHANGED <<jobs, job_events, njobs, silent, status, events, lock,
                   thread, daemon, executor, priv, argv, cur, todo, args, bg, handler,
                   history>>

\* first KeyboardInterrupt, raised in the blocking get():
\* for j in cmd.jobs: j.stop = True
DrainInterrupt ==
    /\ pc = "drain1"
    /\ LiveInTable # {}
    /\ stop' = [j \in JobIds |-> IF InTable(j) THEN TRUE ELSE stop[j]]
    /\ pc' = "drain2"
    /\ UNCHANGED <<jobs, job_events, njobs, silent, status, events, lock,
                   thread, daemon, executor, priv, argv, cur, todo, args, bg, handler,
                   history>>

\* mutant: the wait is given up on the first interrupt already
DrainAbandon_OneStrike ==
    /\ pc \in {"drain1", "drain2"}
    /\ LiveInTable # {}
    /\ pc' = "aborted"
    /\ UNCHANGED <<jobs, job_events, njobs, tracker, executor, priv, argv, cur,
                   todo, args, bg, handler, history>>

\* second KeyboardInterrupt: for every live handle j.thread.daemon = True.
\* The handle is a thread that Machine.scan has started, and the daemon
\* setter of threading.Thread raises RuntimeError on a started thread: the
\* first assignment raises, no flag is written and the exception leaves
\* main().
DrainAbandon ==
    /\ pc = "drain2"
    /\ LiveInTable # {}
    /\ pc' = "aborted"
    /\ UNCHANGED <<jobs, job_events, njobs, tracker, executor, priv, argv, cur,
                   todo, args, bg, handler, history>>

----
\* Executor thread of job j (design sections 4.2, 4.3 and 5).
\* The tool ends by itself, successfully or not.
ExecFinish(j) ==
    /\ epc[j] = "run"
    /\ epc' = [epc EXCEPT ![j] = "finished"]
    /\ status' = [status EXCEPT ![j] = "completed"]
    /\ UNCHANGED <<jobs, job_events, njobs, stop, silent, events, lock,
                   thread, daemon, sent, priv, loop, history>>

\* The executor polls job.stop and aborts early.
ExecStop(j) ==
    /\ epc[j] = "run"
    /\ stop[j]
    /\ epc' = [epc EXCEPT ![j] = "finished"]
    /\ status' = [status EXCEPT ![j] = "completed"]
    /\ UNCHANGED <<jobs, job_events, njobs, stop, silent, events, lock,
                   thread, daemon, sent, priv, loop, history>>

\* The executor acquires the handoff lock before it signals completion.
ExecAcquire(j) ==
    /\ epc[j] = "finished"
    /\ lock[j] = "free"
    /\ lock' = [lock EXCEPT ![j] = "exec"]
    /\ epc' = [epc EXCEPT ![j] = "locked"]
    /\ UNCHANGED <<jobs, job_events, njobs, stop, silent, status, events,
                   thread, daemon, sent, priv, loop, history>>

\* The executor puts the tracker on the job's registered channel.
ExecPut(j) ==
    /\ epc[j] = "locked"
    /\ epc' = [epc EXCEPT ![j] = "put"]
    /\ sent' = [sent EXCEPT ![j] = events[j]]
    /\ job_events' = IF events[j] = "shared" THEN Append(job_events, j)
                     ELSE job_events
    /\ priv' = IF events[j] = "private" THEN [priv EXCEPT ![j] = Append(@, j)]
               ELSE priv
    /\ UNCHANGED <<jobs, njobs, tracker, loop, history>>

\* The executor releases the lock and its thread ends.
ExecRelease(j) ==
    /\ epc[j] = "put"
    /\ lock' = [lock EXCEPT ![j] = "free"]
    /\ epc' = [epc EXCEPT ![j] = "done"]
    /\ UNCHANGED <<jobs, job_events, njobs, stop, silent, status, events,
                   thread, daemon, sent, priv, loop, history>>

----
Operator ==
    \/ \E b \in BOOLEAN, a \in ScanArgs : ScanStart(b, a)
    \/ JobsList
    \/ \E i \in -1..MaxJobs : JobsKill(i)
    \/ Quit
    \/ MainArgError
    \/ MonInterrupt
    \/ MonInterruptAgain
    \/ Sigtstp
    \/ DrainInterrupt
    \/ DrainAbandon

CommandLoop ==
    \/ MachineScan
    \/ BgRegister \/ BgRelease \/ BgAppend
    \/ MonRegister \/ MonRelease \/ MonInstall \/ MonGet \/ MonStop
    \/ MonRestore
    \/ DetLock \/ DetHandoff
    \/ ListGet \/ ListJoin
    \/ DrainGet \/ DrainExit
    \/ MainIf \/ MainCmdloop

Executor(j) ==
    \/ ExecFinish(j)
    \/ ExecStop(j)
    \/ ExecAcquire(j)
    \/ ExecPut(j)
    \/ ExecRelease(j)

Next == Operator \/ CommandLoop \/ \E j \in JobIds : Executor(j)

Spec == Init /\ [][Next]_vars

\* thread scheduling: the command loop and every executor keep running, the
\* tool of every job ends, and the operator ends the session when idle
FairSpec ==
    /\ Spec
    /\ WF_vars(CommandLoop)
    /\ \A j \in JobIds : WF_vars(Executor(j))
    /\ WF_vars(Quit)

\* what a stopped executor does by itself: it sees job.stop and hands over
ExecutorAfterStop(j) ==
    \/ ExecStop(j)
    \/ ExecAcquire(j)
    \/ ExecPut(j)
    \/ ExecRelease(j)

\* as FairSpec, but a tool ends only because its job was told to stop, and
\* the operator interrupts a watch rather than wait for ever
FairStopSpec ==
    /\ Spec
    /\ WF_vars(CommandLoop)
    /\ \A j \in JobIds : WF_vars(ExecutorAfterStop(j))
    /\ WF_vars(Quit)
    /\ WF_vars(MonInterrupt)

\* the scheduling a pass of _jobs_list relies on: the command thread runs,
\* and an executor that has put its signal releases the lock and ends; no
\* tool has to end and the operator does nothing
ListFairSpec ==
    /\ Spec
    /\ WF_vars(ListGet \/ ListJoin)
    /\ \A j \in JobIds : WF_vars(ExecRelease(j))

----
\* the command loop is inside monitor_scan's wait for job j
MonPcs == {"mon_reg", "mon_rel", "mon_sig", "mon_get", "mon_stop", "mon_restore"}
Watched(j) == cur = j /\ pc \in MonPcs
Received(j) == recvP[j] + recvS[j]
InRange(i) == i >= 0 /\ i < Len(jobs)

\* C1: a job's completion signal is dequeued at most once, and when the
\* process has ended its drain without abandoning the job, the signal of
\* every finished job has been dequeued exactly once.
C1_ExactlyOnce ==
    \A j \in Created :
        /\ Received(j) <= 1
        /\ (pc = "exited" /\ epc[j] = "done" /\ ~daemon[j]) => Received(j) = 1

C3_DetachBeforeSend ==
    \A j \in Created :
        (InTable(j) /\ thread[j] = "live") => sent[j] \in {"unsent", "shared"}

\* C4: a watched job detached while its tool still ran is never lost: it
\* stays in the Job Table as one entry, its handle is eventually cleared
\* with status completed (unless a second interrupt ends the drain), and
\* no executor that has finished runs again.
C4_DetachedNeverLost ==
    /\ \A j \in JobIds :
          early[j]
              ~> \/ (thread[j] = "none" /\ status[j] = "completed")
                 \/ pc = "aborted"
    /\ [](\A j \in Created :
            early[j] => Cardinality({i \in 1..Len(jobs) : jobs[i] = j}) = 1)
    /\ [][\A j \in JobIds :
            epc[j] \notin {"new", "run"} => epc'[j] # "run"]_vars

\* a job detached while running was reconciled from the shared channel
C4_Witness ==
    \E j \in Created :
        /\ early[j] /\ outcome[j] = "Detached"
        /\ thread[j] = "none" /\ status[j] = "completed" /\ recvS[j] = 1

\* C5: watch only ever ends with outcome Completed or Detached; an interrupt
\* sets the stop flag and the monitor keeps waiting.
C5_WatchEndsCompletedOrDetached ==
    \A j \in Created : outcome[j] \in {"none", "Completed", "Detached"}

\* C6: a job watched in the foreground whose executor finishes, with no
\* interrupt and no detach signal, eventually makes watch return Completed,
\* its signal received once on the private channel, and it never enters the
\* Job Table.
C6_WatchCompletes ==
    /\ \A j \in JobIds :
          (cur = j /\ pc = "mon_get")
              ~> \/ outcome[j] = "Completed"
                 \/ (cur = j /\ pc \in {"mon_stop", "det_lock", "det_body"})
    /\ [](\A j \in Created :
            outcome[j] = "Completed" =>
                /\ sent[j] = "private"
                /\ recvP[j] = 1 /\ recvS[j] = 0
                /\ priv[j] = <<>>
                /\ ~InTable(j))

C6_Witness ==
    \E j \in Created : outcome[j] = "Completed" /\ ~stop[j] /\ pc = "idle"

\* C7: when watch has returned Detached the job is silent, its registered
\* channel is the shared one and it occupies exactly one Job Table entry,
\* appended last at the moment of return; no step of the detach changes a
\* stop flag or a status.
C7_Detached ==
    /\ [](\A j \in Created :
            outcome[j] = "Detached" =>
                /\ silent[j]
                /\ events[j] = "shared"
                /\ Cardinality({i \in 1..Len(jobs) : jobs[i] = j}) = 1)
    /\ [][\A j \in JobIds :
            (outcome[j] # "Detached" /\ outcome'[j] = "Detached") =>
                /\ jobs' = Append(jobs, j)
                /\ stop' = stop /\ status' = status
                /\ recvP' = recvP /\ recvS' = recvS]_vars
    /\ [][(pc' # pc /\ (pc' = "det_lock" \/ pc \in {"det_lock", "det_body"})) =>
            (stop' = stop /\ status' = status)]_vars

\* the detach returned while the tool was still running
C7_Witness ==
    \E j \in Created :
        outcome[j] = "Detached" /\ epc[j] = "run" /\ jobs[Len(jobs)] = j

\* C8: no job is at once waited on by the Foreground Monitor and an entry of
\* the Job Table.
C8_OneConsumer ==
    \A j \in Created : ~(Watched(j) /\ InTable(j))

\* one job is owned by the Job Table after a detach while another is watched
C8_Witness ==
    \E j, k \in Created :
        /\ j # k
        /\ InTable(j) /\ events[j] = "shared" /\ outcome[j] = "Detached"
        /\ thread[j] = "live"
        /\ cur = k /\ pc = "mon_get"

\* C9: jobs kill with an index out of range reports no such job, and with
\* an index whose handle is cleared reports already completed; in both
\* cases no stop flag, status, handle or Job Table entry changes.
C9_KillFails ==
    /\ [](pc = "idle" =>
            \A i \in -1..MaxJobs :
                /\ ~InRange(i) =>
                      (KillReport(i) = "no such job" /\ KillStop(i) = stop)
                /\ (InRange(i) /\ thread[jobs[i + 1]] = "none") =>
                      (KillReport(i) = "already completed" /\ KillStop(i) = stop))
    /\ [][\A i \in -1..MaxJobs :
            (JobsKill(i) /\ (~InRange(i) \/ thread[jobs[i + 1]] = "none"))
                => UNCHANGED <<stop, status, thread, jobs>>]_vars

\* the operator can kill an entry whose handle is cleared and whose stop
\* flag is still false
C9_Witness ==
    /\ pc = "idle"
    /\ \E i \in 1..Len(jobs) : thread[jobs[i]] = "none" /\ ~stop[jobs[i]]

\* C10 as claimed: jobs kill leaves the stop flag alone for every entry
\* whose executor has sent its completion signal, reconciled or not.
C10_KillAfterCompletion ==
    [][\A i \in -1..MaxJobs :
        (JobsKill(i) /\ InRange(i) /\ sent[jobs[i + 1]] # "unsent")
            => stop' = stop]_vars

\* C10 amended: for an entry whose executor has sent its completion signal,
\* jobs kill fails without side effect once the handle is cleared, and still
\* sets the stop flag while the completion is not reconciled.
C10_KillAfterReconcile ==
    /\ [](pc = "idle" =>
            \A i \in -1..MaxJobs :
                (InRange(i) /\ sent[jobs[i + 1]] # "unsent") =>
                    IF thread[jobs[i + 1]] = "none"
                    THEN KillReport(i) = "already completed" /\ KillStop(i) = stop
                    ELSE /\ KillReport(i) = "killing job"
                         /\ KillStop(i) = [stop EXCEPT ![jobs[i + 1]] = TRUE])
    /\ [][\A i \in -1..MaxJobs :
            (JobsKill(i) /\ InRange(i) /\ sent[jobs[i + 1]] # "unsent") =>
                /\ stop' = KillStop(i)
                /\ thread[jobs[i + 1]] = "none" => stop' = stop]_vars

\* an entry that finished and is not reconciled carries a stop flag that
\* only jobs kill can have set
C10_Witness ==
    /\ pc = "idle"
    /\ \E i \in 1..Len(jobs) :
          /\ sent[jobs[i]] = "shared" /\ thread[jobs[i]] = "live"
          /\ stop[jobs[i]] /\ outcome[jobs[i]] = "none"

\* C11: jobs kill on an entry with a live handle sets that job's stop flag
\* and nothing else: no status, handle, other stop flag, Job Table entry or
\* queued completion signal changes, and the command loop is back at the
\* prompt without having waited for the job.
C11_KillLive ==
    /\ [](pc = "idle" =>
            \A i \in -1..MaxJobs :
                (InRange(i) /\ thread[jobs[i + 1]] = "live") =>
                    /\ KillReport(i) = "killing job"
                    /\ KillStop(i)[jobs[i + 1]]
                    /\ \A k \in JobIds \ {jobs[i + 1]} : KillStop(i)[k] = stop[k])
    /\ [][\A i \in -1..MaxJobs :
            (JobsKill(i) /\ InRange(i) /\ thread[jobs[i + 1]] = "live") =>
                /\ stop' = [stop EXCEPT ![jobs[i + 1]] = TRUE]
                /\ UNCHANGED <<status, thread, daemon, silent, events, lock,
                               jobs, job_events, priv, epc, sent, recvS>>
                /\ pc' = "idle"]_vars

\* a background job was told to stop while its tool was still running
C11_Witness ==
    /\ pc = "idle"
    /\ \E i \in 1..Len(jobs), k \in 1..Len(jobs) :
          /\ stop[jobs[i]] /\ outcome[jobs[i]] = "none" /\ epc[jobs[i]] = "run"
          /\ thread[jobs[i]] = "live" /\ status[jobs[i]] = "running"
          /\ k # i /\ ~stop[jobs[k]]

\* C12: a Job Table entry that is told to stop while its tool runs is
\* eventually reconciled: once the executor has seen the flag and handed
\* over, jobs list or the drain clears the handle, with status completed
\* (unless a second interrupt ends the drain).
C12_KilledEventuallyCompleted ==
    \A j \in JobIds :
        (InTable(j) /\ stop[j] /\ thread[j] = "live" /\ epc[j] = "run")
            ~> \/ (thread[j] = "none" /\ status[j] = "completed")
               \/ pc = "aborted"

\* a background job killed from the prompt was reconciled by jobs list
C12_Witness ==
    /\ pc = "idle"
    /\ \E i \in 1..Len(jobs) :
          /\ stop[jobs[i]] /\ outcome[jobs[i]] = "none"
          /\ thread[jobs[i]] = "none" /\ status[jobs[i]] = "completed"
          /\ recvS[jobs[i]] = 1

\* a step of the command loop inside _jobs_list
ListStep ==
    /\ pc' # pc
    /\ \/ pc = "idle" /\ pc' = "list_get"
       \/ pc \in {"list_get", "list_join"}

\* C13: jobs list is idempotent: a pass that finds the shared queue empty
\* displays the rows the previous pass displayed and changes no handle,
\* status or queue; no pass joins a job a second time, and no pass changes
\* the handle or status of a job that is already joined.
C13_ListIdempotent ==
    /\ [](pc # "crashed")
    /\ [][(ListStep /\ pc = "list_join") =>
            (thread[cur] = "live" /\ recvS[cur] = 1)]_vars
    /\ [][ListStep =>
            \A j \in Created :
                thread[j] = "none" =>
                    (thread'[j] = "none" /\ status'[j] = status[j])]_vars
    /\ [][(ListStep /\ pc # "list_join" /\ job_events = <<>>) =>
            /\ Rows' = Rows
            /\ UNCHANGED <<thread, status, stop, jobs, job_events, recvS>>]_vars

\* a pass that has nothing to reconcile, over a table with a joined job
C13_Witness ==
    /\ pc = "list_get"
    /\ job_events = <<>>
    /\ \E i \in 1..Len(jobs) :
          thread[jobs[i]] = "none" /\ recvS[jobs[i]] = 1 /\ Rows[i].dim

\* _jobs_list leaves its reconciliation loop and displays the table
ListDisplay == pc \in {"list_get", "list_join"} /\ pc' = Prompt

\* C14: jobs list reconciles before it displays: when the table is
\* displayed the shared queue has been emptied, and every job whose signal
\* was taken from it has a cleared handle and is shown dimmed with status
\* completed.
C14_ListReconciles ==
    [][ListDisplay =>
        /\ job_events = <<>>
        /\ \A j \in Created :
              (sent[j] = "shared" /\ InTable(j) /\ epc[j] = "done")
                  => recvS[j] = 1
        /\ \A i \in 1..Len(jobs) :
              recvS[jobs[i]] > 0 =>
                  /\ thread[jobs[i]] = "none"
                  /\ Rows[i].dim
                  /\ Rows[i].status = "completed"]_vars

\* a pass has reconciled two jobs and is about to display them
C14_Witness ==
    /\ pc = "list_get"
    /\ job_events = <<>>
    /\ Len(jobs) = 2
    /\ \A i \in 1..Len(jobs) :
          recvS[jobs[i]] = 1 /\ Rows[i].dim /\ Rows[i].status = "completed"

\* C15: the shutdown drain never hangs: while the drain waits without having
\* been interrupted, once every executor has finished and its thread has
\* ended, either a signal is waiting on the shared queue or no job of the
\* table has a live handle (so the drain loop ends).
C15_DrainNotStuck ==
    (/\ pc = "drain1"
     /\ \A j \in Created : epc[j] = "done"
     /\ job_events = <<>>)
        => LiveInTable = {}

\* C16: when the drain ends without an interrupt no job of the table has a
\* live handle and every job of the table is completed, its signal taken
\* from the shared queue exactly once; and every handle the uninterrupted
\* drain clears is the handle of the job whose own signal it has just taken
\* from the shared queue, that job alone being marked completed.
C16_DrainCompletes ==
    /\ [][(pc = "drain1" /\ pc' = "exited") =>
            \A i \in 1..Len(jobs) :
                /\ thread'[jobs[i]] = "none"
                /\ status'[jobs[i]] = "completed"
                /\ sent[jobs[i]] = "shared"
                /\ recvS[jobs[i]] = 1]_vars
    /\ [][(pc = "drain1" /\ thread' # thread) =>
            /\ job_events # <<>>
            /\ sent[Head(job_events)] = "shared"
            /\ job_events' = Tail(job_events)
            /\ thread' = [thread EXCEPT ![Head(job_events)] = "none"]
            /\ status' = [status EXCEPT ![Head(job_events)] = "completed"]]_vars

\* the drain is over, uninterrupted, for two jobs nobody told to stop
C16_Witness ==
    /\ pc = "exited"
    /\ Len(jobs) = 2
    /\ \A i \in 1..Len(jobs) :
          /\ ~stop[jobs[i]]
          /\ thread[jobs[i]] = "none"
          /\ status[jobs[i]] = "completed"
          /\ recvS[jobs[i]] = 1

\* C17: the first interrupt of the drain sets the stop flag of every job of
\* the table that has a live handle and clears or abandons no handle; the
\* drain goes on waiting, every live job being told to stop, and afterwards
\* clears a handle only for the job whose signal it takes from the shared
\* queue.
C17_FirstInterrupt ==
    /\ [][(pc = "drain1" /\ pc' = "drain2") =>
            /\ \A j \in LiveInTable : stop'[j]
            /\ LiveInTable' = LiveInTable
            /\ UNCHANGED <<thread, daemon, status, jobs, job_events>>]_vars
    /\ [](pc = "drain2" => \A j \in LiveInTable : stop[j])
    /\ [][(pc = "drain2" /\ thread' # thread) =>
            /\ job_events # <<>>
            /\ sent[Head(job_events)] = "shared"
            /\ thread' = [thread EXCEPT ![Head(job_events)] = "none"]]_vars

\* after the first interrupt: two jobs told to stop, still running, still
\* waited for
C17_Witness ==
    /\ pc = "drain2"
    /\ Len(jobs) = 2
    /\ \A i \in 1..Len(jobs) :
          /\ stop[jobs[i]]
          /\ thread[jobs[i]] = "live"
          /\ epc[jobs[i]] = "run"
          /\ ~daemon[jobs[i]]

\* C18: the second interrupt of the drain ends the wait at once: every job
\* of the table that still has a live handle has that handle marked
\* daemonic, neither joined nor cleared, and the process goes on to its
\* exit.
C18_SecondInterrupt ==
    [][(pc = "drain2" /\ pc' # "drain2" /\ LiveInTable # {}) =>
        /\ pc' = "exited"
        /\ \A j \in LiveInTable : daemon'[j] /\ thread'[j] = "live"]_vars

\* C19: a job is never resurrected: no step sets again the handle of a job
\* whose handle has been cleared, and no step takes a completed job back to
\* running.
C19_NeverResurrected ==
    [][\A j \in Created :
          /\ thread[j] = "none" => thread'[j] = "none"
          /\ status[j] = "completed" => status'[j] = "completed"]_vars

\* a job reconciled by jobs list has gone through quit and the first
\* interrupt of the drain, which told it to stop, while another job runs on
C19_Witness ==
    /\ pc = "drain2"
    /\ LiveInTable # {}
    /\ \E i \in 1..Len(jobs) :
          /\ thread[jobs[i]] = "none"
          /\ status[jobs[i]] = "completed"
          /\ stop[jobs[i]]
          /\ outcome[jobs[i]] = "Detached"

\* C20: the Job Table is append-only with stable indices: no step shortens
\* it or changes the job at an existing index, a step adds at most one job
\* at the end, and a step that clears a handle or completes a job leaves
\* the table as it is.
C20_AppendOnly ==
    [][/\ Len(jobs') >= Len(jobs)
       /\ Len(jobs') <= Len(jobs) + 1
       /\ \A i \in 1..Len(jobs) : jobs'[i] = jobs[i]
       /\ (thread' # thread \/ status' # status \/ stop' # stop)
             => jobs' = jobs]_vars

\* two jobs in the table in launch order, the first reconciled in place
\* while the second still runs
C20_Witness ==
    /\ Len(jobs) = 2
    /\ jobs[1] # jobs[2]
    /\ thread[jobs[1]] = "none"
    /\ recvS[jobs[1]] = 1
    /\ thread[jobs[2]] = "live"
    /\ pc = "idle"

\* C21: whatever filters a scan request gives, every job that is created
\* uses a scanner that matches the target and a service that this scanner's
\* match_service accepts.
C21_JobsUseApplicable ==
    [][njobs' # njobs =>
        /\ todo # <<>>
        /\ Head(todo).scanner \in MatchTarget
        /\ MatchService(Head(todo).scanner, Head(todo).service)]_vars

\* _machine_scan has filtered and is about to enter its loop
Filtered == pc = "scan" /\ args # NoArgs

\* the services a request asks for: the target's, narrowed by --service
WantedServices(a) ==
    {svc \in {MachineServices[i] : i \in 1..Len(MachineServices)} :
        a.service = None \/ svc = a.service}

\* the registry scanners that are recommended, match the target and match
\* one of the services request a asks for
RecommendedFor(a) ==
    {s \in {AVAILABLE_SCANNERS[i] : i \in 1..Len(AVAILABLE_SCANNERS)} :
        /\ s \in Recommended
        /\ s \in MatchTarget
        /\ \E svc \in WantedServices(a) : MatchService(s, svc)}

\* C22: with recommended_only and no name filter, the scanners selected are
\* exactly the registry scanners that are recommended, match the target and
\* match one of the selected services, whatever the service filter; when
\* the loop is entered the jobs to run are for exactly these scanners, and a
\* scanner that is not recommended is never among them.
C22_RecommendedOnly ==
    /\ \A a \in ScanArgs :
          (a.recommended /\ a.scanner = None) =>
              /\ {SelScanners(a)[i] : i \in 1..Len(SelScanners(a))}
                    = RecommendedFor(a)
              /\ RecommendedFor(a) = {} => ScanPairs(a) = <<>>
    /\ (Filtered /\ args.recommended /\ args.scanner = None) =>
          /\ {todo[i].scanner : i \in 1..Len(todo)} = RecommendedFor(args)
          /\ \A i \in 1..Len(todo) : todo[i].scanner # "S2"

\* a recommended-only request, made while a job of an earlier request
\* exists, has selected S1 alone and is about to run it
C22_Witness ==
    /\ pc = "scan"
    /\ args = [recommended |-> TRUE, scanner |-> None, service |-> None]
    /\ todo = <<[service |-> "22/tcp", scanner |-> "S1"]>>
    /\ njobs = 1

\* C23: when both recommended_only and a name filter are given, the filters
\* combine by intersection: every scanner selected, and every scanner a job
\* is to run, is recommended and has the name given.
C23_FiltersIntersect ==
    (Filtered /\ args.recommended /\ args.scanner # None) =>
        \A i \in 1..Len(todo) :
            /\ todo[i].scanner \in Recommended
            /\ todo[i].scanner = args.scanner

\* the registry contract applicable(target, service, name_filter,
\* recommended_only) of design section 4.1, over the selected services
Applicable(a) ==
    {s \in {AVAILABLE_SCANNERS[i] : i \in 1..Len(AVAILABLE_SCANNERS)} :
        /\ s \in MatchTarget
        /\ a.recommended => s \in Recommended
        /\ a.scanner # None => s = a.scanner
        /\ \E svc \in WantedServices(a) : MatchService(s, svc)}

\* C24: a scan request whose service filter selects no service of the
\* target, or for which no scanner satisfies the combined filter for a
\* selected service, creates no job and starts no watch: such a request
\* never gets as far as the loop.
C24_NoMatchNoJob ==
    Filtered => (WantedServices(args) # {} /\ Applicable(args) # {})

\* C25: a request that passes filtering runs exactly the (service, scanner)
\* pairs of its selected services and scanners that match_service accepts,
\* each once, services in the outer loop and scanners in the inner loop;
\* every pass of the loop creates one job for the next pair, and the
\* request is over only when no pair is left.
C25_OneJobPerPair ==
    /\ [](Filtered =>
            LET svcs == SelServices(args)
                scs == SelScanners(args)
            IN  /\ {todo[i] : i \in 1..Len(todo)} =
                      {p \in [service : {svcs[k] : k \in 1..Len(svcs)},
                              scanner : {scs[k] : k \in 1..Len(scs)}] :
                          MatchService(p.scanner, p.service)}
                /\ \A i, j \in 1..Len(todo) :
                      i < j =>
                        \E k, l \in 1..Len(svcs) :
                          /\ svcs[k] = todo[i].service
                          /\ svcs[l] = todo[j].service
                          /\ \/ k < l
                             \/ /\ k = l
                                /\ \E m, n \in 1..Len(scs) :
                                      /\ scs[m] = todo[i].scanner
                                      /\ scs[n] = todo[j].scanner
                                      /\ m < n)
    /\ [][(pc = "scan" /\ pc' # "scan") =>
            /\ todo # <<>>
            /\ njobs' = njobs + 1
            /\ cur' = njobs'
            /\ todo' = Tail(todo)]_vars
    /\ [][todo' # todo => (Filtered' \/ pc = "scan")]_vars
    /\ [](pc \in {"idle", "list_get", "list_join", "drain1", "drain2", "exited",
                   "aborted"} => todo = <<>>)

\* the loop of an unfiltered background request has created and handed over
\* the job of its first pair and is about to run its second pair
C25_Witness ==
    /\ pc = "scan"
    /\ bg
    /\ njobs = 1
    /\ jobs = <<1>>
    /\ todo = <<[service |-> "22/tcp", scanner |-> "S1"]>>
    /\ ScanPairs([recommended |-> FALSE, scanner |-> None, service |-> None])
          = <<[service |-> "80/tcp", scanner |-> "S2"]>> \o todo

\* C26: every job of a background request is created silent with its
\* handoff lock held, has the shared queue registered before the lock is
\* released, and is appended to the Job Table, after every job created
\* before it, before the command loop is back at the prompt; so whenever
\* jobs list or the drain can take a signal from the shared queue, the job
\* it names is in the table.
C26_BackgroundHandover ==
    /\ [][(bg /\ njobs' # njobs) =>
            (silent'[njobs'] /\ lock'[njobs'] = "main"
             /\ events'[njobs'] = "none")]_vars
    /\ [][(pc = "bg_rel" /\ pc' # pc) =>
            (events[cur] = "shared" /\ lock[cur] = "main"
             /\ lock'[cur] = "free")]_vars
    /\ [][(pc = "bg_app" /\ pc' # pc) =>
            /\ jobs' = Append(jobs, cur)
            /\ \A i \in 1..Len(jobs) : jobs[i] < cur]_vars
    /\ [](\A j \in Created :
            (silent[j] /\ events[j] = "shared" /\ ~InTable(j))
                => (pc \in {"bg_rel", "bg_app"} /\ cur = j))
    /\ [](pc \in {"idle", "list_get", "list_join", "drain1", "drain2"} =>
            \A i \in 1..Len(job_events) : InTable(job_events[i]))

\* a background job has already signalled on the shared queue and is about
\* to be appended to the table
C26_Witness ==
    /\ pc = "bg_app"
    /\ bg
    /\ silent[cur]
    /\ ~InTable(cur)
    /\ job_events = <<cur>>

\* C27: every job whose completion signal has not been consumed has exactly
\* one owner: the job the monitor is watching is not in the Job Table, and
\* every other such job, once the command that launched it is no longer
\* working on it, is an entry of the Job Table.
C27_ExactlyOneOwner ==
    \A j \in Created :
        Received(j) = 0 =>
            /\ Watched(j) => ~InTable(j)
            /\ cur # j => InTable(j)

\* C28: every signal taken from the shared queue, by jobs list or by the
\* drain, names a job of the Job Table whose handle is live and whose signal
\* was not taken before; taking it clears that one handle (at once in the
\* drain, after the join in jobs list), the live handles of the table
\* becoming one fewer, and no handle is cleared in any other way.
C28_DequeueClearsOne ==
    /\ [][Len(job_events') < Len(job_events) =>
            LET t == Head(job_events) IN
            /\ job_events' = Tail(job_events)
            /\ InTable(t) /\ thread[t] = "live" /\ recvS[t] = 0
            /\ pc \in {"list_get", "drain1", "drain2"}
            /\ pc = "list_get" =>
                  (pc' = "list_join" /\ cur' = t /\ thread' = thread)
            /\ pc # "list_get" =>
                  /\ thread' = [thread EXCEPT ![t] = "none"]
                  /\ LiveInTable' = LiveInTable \ {t}
                  /\ Cardinality(LiveInTable') = Cardinality(LiveInTable) - 1]_vars
    /\ [][(pc = "list_join" /\ pc' # pc) =>
            /\ InTable(cur) /\ thread[cur] = "live"
            /\ thread' = [thread EXCEPT ![cur] = "none"]
            /\ Cardinality(LiveInTable') = Cardinality(LiveInTable) - 1]_vars
    /\ [][(\E j \in Created : thread[j] = "live" /\ thread'[j] = "none") =>
            \/ pc = "list_join"
            \/ (pc \in {"drain1", "drain2"}
                /\ Len(job_events') < Len(job_events))]_vars

\* jobs list has taken the signal of one of two live jobs of the table and
\* is about to join it
C28_Witness ==
    /\ pc = "list_join"
    /\ InTable(cur)
    /\ thread[cur] = "live"
    /\ recvS[cur] = 1
    /\ Cardinality(LiveInTable) = 2

\* C29: the shutdown escalates in two strikes: the drain gives up its wait
\* (the only place where a handle is marked daemonic) only from the wait
\* that follows a first interrupt, that wait is entered only by an
\* interrupt of the first wait, and when the drain gives up every job of
\* the table with a live handle has its stop flag set; no daemon flag is
\* written anywhere else.
C29_TwoStrikes ==
    /\ [][(pc' = "aborted" /\ pc # "aborted") =>
            (pc = "drain2" /\ \A j \in LiveInTable : stop[j])]_vars
    /\ [][(pc' = "drain2" /\ pc # "drain2") => pc = "drain1"]_vars
    /\ [][daemon' # daemon =>
            (pc = "drain2" /\ \A j \in LiveInTable : stop[j])]_vars
    /\ [](pc = "aborted" => \A j \in LiveInTable : stop[j])

\* the second interrupt has ended the wait for a job that was told to stop
\* by the first and is still running
C29_Witness ==
    /\ pc = "aborted"
    /\ \E j \in LiveInTable : stop[j] /\ epc[j] = "run"

\* C30: the first interrupt of the drain changes outstanding jobs only: a
\* job whose handle is already cleared keeps its stop flag, its status and
\* its (cleared) handle.
C30_FirstInterruptFrame ==
    [][(pc = "drain1" /\ pc' = "drain2") =>
        \A j \in Created :
            thread[j] = "none" =>
                /\ stop'[j] = stop[j]
                /\ status'[j] = status[j]
                /\ thread'[j] = thread[j]]_vars

\* the jobs in the foreground: created by a non-background request, their
\* watch not yet returned
Foreground == {j \in Created : ~silent[j] /\ outcome[j] = "none"}

\* C31: a non-background request watches one job at a time: at most one job
\* is in the foreground, it is the job the command loop is inside
\* monitor_scan for, and a job is created only when the watch of every
\* earlier job has returned or the job is in the Job Table.
C31_OneForeground ==
    /\ [](/\ Cardinality(Foreground) <= 1
          /\ \A j \in Foreground :
                cur = j /\ pc \in MonPcs \cup {"det_lock", "det_body"})
    /\ [][njobs' # njobs =>
            /\ pc = "scan"
            /\ Foreground = {}
            /\ \A j \in Created : outcome[j] # "none" \/ InTable(j)
            /\ ~bg => (Foreground' = {njobs'} /\ pc' = "mon_reg")]_vars

\* the second job of a non-background request is watched while the first,
\* detached earlier, still runs in the Job Table
C31_Witness ==
    /\ ~bg
    /\ pc = "mon_get"
    /\ cur = 2
    /\ Foreground = {2}
    /\ jobs = <<1>>
    /\ outcome[1] = "Detached"
    /\ epc[1] = "run" /\ epc[2] = "run"

\* C32: a pass of _jobs_list joins only a thread whose signal it has taken
\* off the shared queue (the tool of that job has ended), on an empty queue
\* it returns (to the prompt, or to main() when it was the command of the
\* command line) whatever jobs still run, and every pass returns although
\* no running tool ever ends.
C32_ListTerminates ==
    /\ [](pc = "list_join" =>
            /\ cur \in Created
            /\ sent[cur] = "shared"
            /\ recvS[cur] >= 1
            /\ epc[cur] \in {"put", "done"})
    /\ [][pc = "list_get" /\ job_events = <<>> /\ pc' # pc => pc' = Prompt]_vars
    /\ (pc \in {"list_get", "list_join"} ~> pc \in {"idle", "main_if"})

\* a pass has reconciled job 1 and returned to the prompt while job 2 of
\* the table still runs
C32_Witness ==
    /\ pc = "idle"
    /\ jobs = <<1, 2>>
    /\ recvS[1] = 1
    /\ thread[1] = "none"
    /\ epc[2] = "run"
    /\ thread[2] = "live"

\* C33: started with a command, main() runs that one command and then
\* enters the command loop exactly when a table entry has a live handle,
\* else it goes to the drain; the drain begins only when the command loop
\* has ended or the single command has left no live handle, and the session
\* is written only from the end of a drain.  (A command the parser rejects
\* ends the process at once: nothing was run, nothing is written.)
C33_LoopIffLiveThenDrain ==
    /\ []((argv /\ pc = "idle") => (njobs = 0 /\ jobs = <<>>))
    /\ [](pc = "exit1" => (argv /\ njobs = 0))
    /\ [][(pc = "main_if" /\ pc' # pc) =>
            IF LiveInTable # {} THEN pc' = "main_loop" ELSE pc' = "drain1"]_vars
    /\ [][(argv /\ ~argv') =>
            /\ pc' = "idle" <=> LiveInTable # {}
            /\ pc' = "drain1" <=> LiveInTable = {}]_vars
    /\ [][(pc' = "drain1" /\ pc # "drain1") =>
            \/ pc = "idle" /\ ~argv
            \/ pc = "main_if" /\ LiveInTable = {}]_vars
    /\ [][(pc = "idle" /\ ~argv /\ pc' \notin {"idle", "scan", "list_get"}) =>
            pc' = "drain1"]_vars
    /\ [][(pc' = "exited" /\ pc # "exited") =>
            (pc \in {"drain1", "drain2"} /\ LiveInTable = {})]_vars

\* the command of the command line was a background scan; its job is in the
\* table and still runs, and main() is about to start the interpreter
C33_Witness ==
    /\ argv
    /\ pc = "main_loop"
    /\ LiveInTable = {1}
    /\ silent[1]
    /\ epc[1] = "run"

\* C34: background_me is installed only while monitor_scan watches a job:
\* whenever it is the disposition of SIGTSTP the command loop is between the
\* install of line 696 and the restore of line 707 for a job whose watch
\* has not ended, so once watch has ended, whichever way, the disposition
\* is the default one.
C34_HandlerOnlyWhileWatched ==
    handler = "background_me" =>
        /\ pc \in {"mon_get", "mon_stop", "mon_restore"}
        /\ cur \in Created
        /\ outcome[cur] = "none"

====
